---- MODULE Spec2Model ----
(***************************************************************************)
(* Model of scripts/generate_site.py: the command-line entry and main(),   *)
(* which reads a CSV file, drops the columns whose header is blank, remaps *)
(* the data rows to the kept columns, escapes and renders them into an     *)
(* HTML page and writes the page to the output path.                       *)
(*                                                                         *)
(* A string is the sequence of its Unicode code points (ord of each       *)
(* character), a CSV row a sequence of strings, a CSV file a sequence of   *)
(* rows (what csv.reader yields).                                          *)
(* The page is the record of the three values the template interpolates    *)
(* (updated, thead, tbody); the rest of the template is constant text.     *)
(***************************************************************************)
EXTENDS Integers, Sequences, FiniteSets, TLC

\* ------------------------------------------------------------------ bounds
\* Longest header row of the CSV inputs.
MaxCols == 2
\* Most data rows of the CSV inputs.
MaxRows == 2
\* Last reading of the clock, in half seconds.
MaxClock == 2

\* ------------------------------------------------------------- characters
\* The ASCII characters from the space (32) to the underscore (95), in the
\* order of their code points.
AsciiLow ==
  << " ", "!", "\"", "#", "$", "%", "&", "'", "(", ")", "*", "+", ",", "-", ".", "/",
     "0", "1", "2", "3", "4", "5", "6", "7", "8", "9", ":", ";", "<", "=", ">", "?",
     "@", "A", "B", "C", "D", "E", "F", "G", "H", "I", "J", "K", "L", "M", "N", "O",
     "P", "Q", "R", "S", "T", "U", "V", "W", "X", "Y", "Z", "[", "\\", "]", "^", "_" >>

\* The ASCII characters from "a" (97) to the tilde (126), in the order of
\* their code points.
AsciiHigh ==
  << "a", "b", "c", "d", "e", "f", "g", "h", "i", "j", "k", "l", "m", "n", "o", "p",
     "q", "r", "s", "t", "u", "v", "w", "x", "y", "z", "{", "|", "}", "~" >>

\* ord(c) of an ASCII character written as a one-character string.
Ord(c) ==
  IF c = "\t" THEN 9
  ELSE IF c = "\n" THEN 10
  ELSE IF c = "\f" THEN 12
  ELSE IF c = "\r" THEN 13
  ELSE IF \E i \in 1..Len(AsciiLow) : AsciiLow[i] = c
    THEN 31 + (CHOOSE i \in 1..Len(AsciiLow) : AsciiLow[i] = c)
    ELSE 96 + (CHOOSE i \in 1..Len(AsciiHigh) : AsciiHigh[i] = c)

\* The string (its code points) of a sequence of ASCII characters.
Str(cs) == [i \in 1..Len(cs) |-> Ord(cs[i])]

\* ------------------------------------------------------------- the inputs
\* Cell texts of the CSV inputs: the empty cell, a whitespace-only cell (a
\* space, a form feed, a no-break space U+00A0 and an em space U+2003), a
\* name with a leading space and a non-ASCII letter (U+00E9), and cells
\* made of the characters that html.escape rewrites (one of them with a
\* line break inside the cell).
CellPool ==
  << << >>,
     Str(<<" ", "\f">>) \o <<160, 8195>>,
     Str(<<" ", "a">>) \o <<233>>,
     Str(<<"<", "b", ">", "&">>),
     Str(<<"\"", "'", "\n", "c">>) >>

PoolCell(i) == CellPool[((i - 1) % Len(CellPool)) + 1]

\* The row of n consecutive cells of the pool that starts at cell s.
RowFrom(s, n) == [i \in 1..n |-> PoolCell(s + i - 1)]

HeaderRows == { RowFrom(s, n) : s \in 1..Len(CellPool), n \in 0..MaxCols }

\* The lengths of the data rows: any length from 0 to one more than the
\* longest header, so rows are shorter than, as long as and longer than it.
RowLengths == UNION { [1..m -> 0..(MaxCols + 1)] : m \in 0..MaxRows }

DataRowsFrom(s, lens) == [j \in 1..Len(lens) |-> RowFrom(s + j - 1, lens[j])]

\* The data rows under a header that starts at cell s start at the same
\* cell of the pool or at the next one.
DataRowSets(s) == { DataRowsFrom(t, lens) : t \in {s, s + 1}, lens \in RowLengths }

\* The contents a CSV file can have: no record at all, or a header record
\* followed by data records.
CsvInputs ==
  { << >> } \cup
  UNION { { <<RowFrom(s, n)>> \o d : n \in 0..MaxCols, d \in DataRowSets(s) } :
          s \in 1..Len(CellPool) }

\* ---------------------------------------------------------- the file system
InPath == "data/sheet.csv"
OutPath == "site/pages/index.html"
ExtraArg == "extra"
Prog == "generate_site.py"

\* A file is absent (the empty sequence) or present with one content.
NoFile == << >>

FileOf(content) == <<content>>

Content(f) == f[1]

\* Path(out_path).parent and its own parents, outermost first.
Parents(p) ==
  IF p = OutPath THEN <<"site", "site/pages">>
  ELSE IF p = InPath THEN <<"data">>
  ELSE << >>

Range(s) == { s[i] : i \in 1..Len(s) }

\* Mutant: mkdir without parents=True makes the innermost directory only.
MkdirLeafOnly(ds, p) == ds \cup {Parents(p)[Len(Parents(p))]}

\* Path.mkdir(parents=True, exist_ok=True): the directory and every missing
\* ancestor exist afterwards; an existing directory is no error.
MkdirParents(ds, p) == ds \cup Range(Parents(p))

\* ----------------------------------------------------------------- strings
\* The characters str.strip() removes, those with str.isspace(): U+0009 to
\* U+000D, U+001C to U+0020, U+0085, U+00A0, U+1680, U+2000 to U+200A,
\* U+2028, U+2029, U+202F, U+205F and U+3000.
Whitespace ==
  (9..13) \cup (28..32) \cup {133, 160, 5760} \cup (8192..8202) \cup
  {8232, 8233, 8239, 8287, 12288}

RECURSIVE LStrip(_)
LStrip(s) == IF s # << >> /\ Head(s) \in Whitespace THEN LStrip(Tail(s)) ELSE s

RECURSIVE RStrip(_)
RStrip(s) ==
  IF s # << >> /\ s[Len(s)] \in Whitespace THEN RStrip(SubSeq(s, 1, Len(s) - 1)) ELSE s

\* str.strip()
Strip(s) == RStrip(LStrip(s))

\* str.replace(old, new) for a one-character old.
RECURSIVE Replace(_, _, _)
Replace(s, old, new) ==
  IF s = << >> THEN << >>
  ELSE (IF Head(s) = old THEN new ELSE <<Head(s)>>) \o Replace(Tail(s), old, new)

Amp == Str(<<"&", "a", "m", "p", ";">>)
Lt == Str(<<"&", "l", "t", ";">>)
Gt == Str(<<"&", "g", "t", ";">>)
Quot == Str(<<"&", "q", "u", "o", "t", ";">>)
Apos == Str(<<"&", "#", "x", "2", "7", ";">>)

AmpChar == Ord("&")
LtChar == Ord("<")
GtChar == Ord(">")
QuotChar == Ord("\"")
AposChar == Ord("'")

\* Mutant: html.escape(s, quote=False) leaves the quotes alone.
EscapeNoQuotes(s) == Replace(Replace(Replace(s, AmpChar, Amp), LtChar, Lt), GtChar, Gt)

\* html.escape(s) with quote=True: "&" is replaced first, then "<", ">",
\* the double quote and the single quote.
Escape(s) ==
  Replace(Replace(Replace(Replace(Replace(s, AmpChar, Amp), LtChar, Lt), GtChar, Gt),
                  QuotChar, Quot), AposChar, Apos)

\* "".join(parts)
RECURSIVE Concat(_)
Concat(parts) == IF parts = << >> THEN << >> ELSE Head(parts) \o Concat(Tail(parts))

\* sep.join(parts)
RECURSIVE Join(_, _)
Join(sep, parts) ==
  IF parts = << >> THEN << >>
  ELSE IF Len(parts) = 1 THEN parts[1]
  ELSE parts[1] \o sep \o Join(sep, Tail(parts))

\* ------------------------------------------------------- the pure pipeline
\* Mutant: the filter without the strip, `h != ""`.
KeepHeaderNoStrip(h) == h # << >>

\* The header passes the filter: `h and h.strip() != ""`.
KeepHeader(h) == h # << >> /\ Strip(h) # << >>

\* [i for i, h in enumerate(headers) if h and h.strip() != ""], in the
\* 1-based indices of a sequence.
RECURSIVE KeepFrom(_, _)
KeepFrom(hs, i) ==
  IF i > Len(hs) THEN << >>
  ELSE (IF KeepHeader(hs[i]) THEN <<i>> ELSE << >>) \o KeepFrom(hs, i + 1)

KeepIndices(hs) == KeepFrom(hs, 1)

\* Mutant: the kept headers are stored trimmed.
FilterHeadersStripped(hs, keep) == [k \in 1..Len(keep) |-> Strip(hs[keep[k]])]

\* [headers[i] for i in keep_indices]
FilterHeaders(hs, keep) == [k \in 1..Len(keep) |-> hs[keep[k]]]

\* Mutant: no filling, [row[i] for i in keep_indices if i < len(row)].
RowForIndicesNoPad(row, keep) ==
  LET InRow(i) == i <= Len(row)
      present == SelectSeq(keep, InRow)
  IN [k \in 1..Len(present) |-> row[present[k]]]

\* Mutant: the bound is off by one, the last cell of a row counts as missing.
RowForIndicesOffByOne(row, keep) ==
  [k \in 1..Len(keep) |-> IF keep[k] < Len(row) THEN row[keep[k]] ELSE << >>]

\* row_for_indices: [row[i] if i < len(row) else "" for i in keep_indices]
RowForIndices(row, keep) ==
  [k \in 1..Len(keep) |-> IF keep[k] <= Len(row) THEN row[keep[k]] ELSE << >>]

\* [row_for_indices(r) for r in data_rows]
FilterRows(rs, keep) == [j \in 1..Len(rs) |-> RowForIndices(rs[j], keep)]

\* datetime.now(timezone.utc).strftime("%Y-%m-%d %H:%M:%SZ"): the text has
\* whole seconds only; the clock counts half seconds.
Strftime(t) == t \div 2

TrOpen == Str(<<"<", "t", "r", ">">>)
TrClose == Str(<<"<", "/", "t", "r", ">">>)
ThOpen == Str(<<"<", "t", "h", ">">>)
ThClose == Str(<<"<", "/", "t", "h", ">">>)
TdOpen == Str(<<"<", "t", "d", ">">>)
TdClose == Str(<<"<", "/", "t", "d", ">">>)
Newline == Str(<<"\n">>)

\* td(cell)
Td(cell) == TdOpen \o Escape(cell) \o TdClose

Th(h) == ThOpen \o Escape(h) \o ThClose

\* thead = "<tr>" + "".join(f"<th>{html.escape(h)}</th>" for h in filtered_headers) + "</tr>"
Thead(hs) == TrOpen \o Concat([k \in 1..Len(hs) |-> Th(hs[k])]) \o TrClose

BodyRow(r) == TrOpen \o Concat([k \in 1..Len(r) |-> Td(r[k])]) \o TrClose

\* tbody = "\n".join("<tr>" + "".join(td(c) for c in r) + "</tr>" for r in filtered_data_rows)
Tbody(rs) == Join(Newline, [j \in 1..Len(rs) |-> BodyRow(rs[j])])

\* The f-string template: the page with its three interpolated values.
PageOf(u, th, tb) == [updated |-> u, thead |-> th, tbody |-> tb]

\* ------------------------------------------------------------ the messages
NoExit == "running"
ExitOk == "ok"
UsageMsg == "Usage: generate_site.py input.csv output.html"
EmptyMsg == "CSV is empty"
NoColumnsMsg == "No non-empty header columns found in CSV"
FileNotFound == "FileNotFoundError"

\* A page left at the output path by an earlier run on an older sheet.
StalePage == PageOf(0, Thead(<< Str(<<"o", "l", "d">>) >>), Tbody(<< << Str(<<"1">>) >> >>))

NoSummary == [rows |-> -1, cols |-> -1]

\* The values of the locals that are not assigned yet.
None == "None"
NoRows == << >>
NoTime == -1
NoText == << >>
NoPage == PageOf(NoTime, NoText, NoText)

\* ------------------------------------------------------------------- state
VARIABLES
  csvFile,        \* the file at InPath: NoFile or FileOf(rows)
  dirs,           \* the directories that exist
  outFile,        \* the file at OutPath: NoFile or FileOf(page)
  now,            \* the last reading of the clock, in half seconds
  argv,           \* sys.argv of the current run
  pc,             \* the statement the current run is at
  exit,           \* how the current run ended
  stdout,         \* the summary the current run printed
  csv_path, out_path,
  rows, headers, data_rows, keep_indices,
  filtered_headers, filtered_data_rows,
  updated, thead, tbody, page,
  dirsAtStart,    \* history: dirs when the current run started
  fileAtStart,    \* history: outFile when the current run started
  lastRun         \* history: the rows read by the last successful run and the
                  \* page it left at the output path

fsVars == <<csvFile, dirs, outFile>>
locals == <<csv_path, out_path, rows, headers, data_rows, keep_indices,
            filtered_headers, filtered_data_rows, updated, thead, tbody, page>>
history == <<dirsAtStart, fileAtStart, lastRun>>
vars == <<csvFile, dirs, outFile, now, argv, pc, exit, stdout,
          csv_path, out_path, rows, headers, data_rows, keep_indices,
          filtered_headers, filtered_data_rows, updated, thead, tbody, page,
          dirsAtStart, fileAtStart, lastRun>>

\* No run has succeeded yet (the empty sequence), or <<[rows, page]>>.
NoRun == << >>

\* The command lines: none, one, two and three positional arguments.
ArgLists ==
  { <<Prog>>, <<Prog, InPath>>, <<Prog, InPath, OutPath>>, <<Prog, InPath, OutPath, ExtraArg>> }

\* The directories and the output file before the first run: nothing, the
\* outer directory only, both directories, or both with a stale page.
InitialTrees ==
  { [d |-> {}, f |-> NoFile],
    [d |-> {"site"}, f |-> NoFile],
    [d |-> {"site", "site/pages"}, f |-> NoFile],
    [d |-> {"site", "site/pages"}, f |-> FileOf(StalePage)] }

Unset ==
  /\ csv_path = None /\ out_path = None
  /\ rows = NoRows /\ headers = NoRows /\ data_rows = NoRows /\ keep_indices = NoRows
  /\ filtered_headers = NoRows /\ filtered_data_rows = NoRows
  /\ updated = NoTime /\ thead = NoText /\ tbody = NoText /\ page = NoPage

Init ==
  /\ csvFile \in { FileOf(c) : c \in CsvInputs } \cup {NoFile}
  /\ \E t \in InitialTrees : dirs = t.d /\ outFile = t.f
  /\ now = 0
  /\ argv = << >>
  /\ pc = "idle"
  /\ exit = NoExit
  /\ stdout = NoSummary
  /\ Unset
  /\ dirsAtStart = dirs
  /\ fileAtStart = outFile
  /\ lastRun = NoRun

\* ----------------------------------------------------------------- actions
\* The operator starts the script with some command line; every run starts
\* with fresh locals.
Invoke ==
  /\ pc \in {"idle", "done"}
  /\ \E a \in ArgLists : argv' = a
  /\ pc' = "entry"
  /\ exit' = NoExit
  /\ stdout' = NoSummary
  /\ csv_path' = None /\ out_path' = None
  /\ rows' = NoRows /\ headers' = NoRows /\ data_rows' = NoRows /\ keep_indices' = NoRows
  /\ filtered_headers' = NoRows /\ filtered_data_rows' = NoRows
  /\ updated' = NoTime /\ thead' = NoText /\ tbody' = NoText /\ page' = NoPage
  /\ dirsAtStart' = dirs
  /\ fileAtStart' = outFile
  /\ UNCHANGED <<fsVars, now, lastRun>>

\* if len(sys.argv) != 3: raise SystemExit(usage)
EntryUsage ==
  /\ pc = "entry"
  /\ Len(argv) # 3
  /\ exit' = UsageMsg
  /\ pc' = "done"
  /\ UNCHANGED <<fsVars, now, argv, stdout, locals, history>>

\* Mutant: main is called with the two arguments swapped.
CallMainSwapped ==
  /\ pc = "entry"
  /\ Len(argv) = 3
  /\ csv_path' = argv[3]
  /\ out_path' = argv[2]
  /\ pc' = "mkdir"
  /\ UNCHANGED <<fsVars, now, argv, exit, stdout, rows, headers, data_rows, keep_indices,
                 filtered_headers, filtered_data_rows, updated, thead, tbody, page, history>>

\* main(sys.argv[1], sys.argv[2]); argv[0] is the sequence's first element.
CallMain ==
  /\ pc = "entry"
  /\ Len(argv) = 3
  /\ csv_path' = argv[2]
  /\ out_path' = argv[3]
  /\ pc' = "mkdir"
  /\ UNCHANGED <<fsVars, now, argv, exit, stdout, rows, headers, data_rows, keep_indices,
                 filtered_headers, filtered_data_rows, updated, thead, tbody, page, history>>

\* out_file.parent.mkdir(parents=True, exist_ok=True)
Mkdir ==
  /\ pc = "mkdir"
  /\ dirs' = MkdirParents(dirs, out_path)
  /\ pc' = "read"
  /\ UNCHANGED <<csvFile, outFile, now, argv, exit, stdout, locals, history>>

\* The file at a path.
FileAt(p) == IF p = InPath THEN csvFile ELSE IF p = OutPath THEN outFile ELSE NoFile

\* with csv_file.open(...) as f: rows = list(csv.reader(f))
ReadCsv ==
  /\ pc = "read"
  /\ IF FileAt(csv_path) = NoFile
       THEN /\ exit' = FileNotFound
            /\ pc' = "done"
            /\ UNCHANGED rows
       ELSE /\ rows' = Content(FileAt(csv_path))
            /\ pc' = "check_rows"
            /\ UNCHANGED exit
  /\ UNCHANGED <<fsVars, now, argv, stdout, csv_path, out_path, headers, data_rows,
                 keep_indices, filtered_headers, filtered_data_rows, updated, thead,
                 tbody, page, history>>

\* Mutant: the output file is opened for writing before the rows are
\* checked, which leaves an empty page behind when the check fails.
CheckRowsAfterOpen ==
  /\ pc = "check_rows"
  /\ outFile' = FileOf(NoPage)
  /\ IF rows = << >>
       THEN /\ exit' = EmptyMsg
            /\ pc' = "done"
            /\ UNCHANGED <<headers, data_rows>>
       ELSE /\ headers' = Head(rows)
            /\ data_rows' = Tail(rows)
            /\ pc' = "filter"
            /\ UNCHANGED exit
  /\ UNCHANGED <<csvFile, dirs, now, argv, stdout, csv_path, out_path, rows,
                 keep_indices, filtered_headers, filtered_data_rows, updated, thead,
                 tbody, page, history>>

\* if not rows: raise SystemExit("CSV is empty"); headers = rows[0]; data_rows = rows[1:]
CheckRows ==
  /\ pc = "check_rows"
  /\ IF rows = << >>
       THEN /\ exit' = EmptyMsg
            /\ pc' = "done"
            /\ UNCHANGED <<headers, data_rows>>
       ELSE /\ headers' = Head(rows)
            /\ data_rows' = Tail(rows)
            /\ pc' = "filter"
            /\ UNCHANGED exit
  /\ UNCHANGED <<fsVars, now, argv, stdout, csv_path, out_path, rows,
                 keep_indices, filtered_headers, filtered_data_rows, updated, thead,
                 tbody, page, history>>

\* keep_indices = [...]; if not keep_indices: raise SystemExit(...);
\* filtered_headers = [headers[i] for i in keep_indices]
Filter ==
  /\ pc = "filter"
  /\ keep_indices' = KeepIndices(headers)
  /\ IF keep_indices' = << >>
       THEN /\ exit' = NoColumnsMsg
            /\ pc' = "done"
            /\ UNCHANGED filtered_headers
       ELSE /\ filtered_headers' = FilterHeaders(headers, keep_indices')
            /\ pc' = "remap"
            /\ UNCHANGED exit
  /\ UNCHANGED <<fsVars, now, argv, stdout, csv_path, out_path, rows, headers, data_rows,
                 filtered_data_rows, updated, thead, tbody, page, history>>

\* filtered_data_rows = [row_for_indices(r) for r in data_rows]
Remap ==
  /\ pc = "remap"
  /\ filtered_data_rows' = FilterRows(data_rows, keep_indices)
  /\ pc' = "timestamp"
  /\ UNCHANGED <<fsVars, now, argv, exit, stdout, csv_path, out_path, rows, headers,
                 data_rows, keep_indices, filtered_headers, updated, thead, tbody, page,
                 history>>

\* updated = datetime.now(timezone.utc).strftime(...): the clock has not
\* gone back since its last reading.
Timestamp ==
  /\ pc = "timestamp"
  /\ \E t \in now..MaxClock : now' = t /\ updated' = Strftime(t)
  /\ pc' = "render"
  /\ UNCHANGED <<fsVars, argv, exit, stdout, csv_path, out_path, rows, headers,
                 data_rows, keep_indices, filtered_headers, filtered_data_rows,
                 thead, tbody, page, history>>

\* thead = ...; tbody = ...; page = f"""..."""
Render ==
  /\ pc = "render"
  /\ thead' = Thead(filtered_headers)
  /\ tbody' = Tbody(filtered_data_rows)
  /\ page' = PageOf(updated, thead', tbody')
  /\ pc' = "write"
  /\ UNCHANGED <<fsVars, now, argv, exit, stdout, csv_path, out_path, rows, headers,
                 data_rows, keep_indices, filtered_headers, filtered_data_rows,
                 updated, history>>

\* Mutant: the page is appended to the file that is there.
WriteTextAppend ==
  /\ pc = "write"
  /\ outFile' = IF outFile = NoFile THEN FileOf(page)
                ELSE FileOf(PageOf(page.updated, page.thead, Content(outFile).tbody \o page.tbody))
  /\ pc' = "print"
  /\ UNCHANGED <<csvFile, dirs, now, argv, exit, stdout, locals, history>>

\* out_file.write_text(page, encoding="utf-8")
WriteText ==
  /\ pc = "write"
  /\ outFile' = IF out_path = OutPath THEN FileOf(page) ELSE outFile
  /\ pc' = "print"
  /\ UNCHANGED <<csvFile, dirs, now, argv, exit, stdout, locals, history>>

\* print(f"Wrote {out_file} ({len(filtered_data_rows)} rows, {len(filtered_headers)} columns)")
\* and the normal end of the script.
PrintSummary ==
  /\ pc = "print"
  /\ stdout' = [rows |-> Len(filtered_data_rows), cols |-> Len(filtered_headers)]
  /\ exit' = ExitOk
  /\ pc' = "done"
  /\ lastRun' = <<[rows |-> rows, page |-> Content(outFile)]>>
  /\ UNCHANGED <<fsVars, now, argv, locals, dirsAtStart, fileAtStart>>

Next ==
  \/ Invoke
  \/ EntryUsage
  \/ CallMain
  \/ Mkdir
  \/ ReadCsv
  \/ CheckRows
  \/ Filter
  \/ Remap
  \/ Timestamp
  \/ Render
  \/ WriteText
  \/ PrintSummary

Spec == Init /\ [][Next]_vars

\* ------------------------------------------------ reading a rendered table
\* The definitions below read the input file and the rendered text back;
\* the properties compare the two.

\* pat occurs in s at place i.
MatchAt(s, i, pat) ==
  \/ pat = << >>
  \/ /\ i + Len(pat) - 1 <= Len(s)
     /\ s[i] = pat[1]
     /\ SubSeq(s, i, i + Len(pat) - 1) = pat

StartsWith(s, pat) == MatchAt(s, 1, pat)

\* The number of places where pat occurs in s.
CountSub(s, pat) == Cardinality({ i \in 1..Len(s) : MatchAt(s, i, pat) })

CountChar(s, c) == Cardinality({ i \in 1..Len(s) : s[i] = c })

\* The first place from i on where pat occurs in s, 0 when there is none.
RECURSIVE FirstFrom(_, _, _)
FirstFrom(s, i, pat) ==
  IF i > Len(s) THEN 0
  ELSE IF MatchAt(s, i, pat) THEN i
  ELSE FirstFrom(s, i + 1, pat)

IndexOf(s, pat) == FirstFrom(s, 1, pat)

\* The text is not made of such elements (-1 is no code point).
Malformed == <<-1>>

\* The inner texts of the elements `open inner close` that s is made of,
\* one after the other with sep in between.
RECURSIVE Elements(_, _, _, _)
Elements(s, open, close, sep) ==
  IF s = << >> THEN << >>
  ELSE IF ~StartsWith(s, open) THEN <<Malformed>>
  ELSE LET body == SubSeq(s, Len(open) + 1, Len(s))
           e == IndexOf(body, close)
       IN IF e = 0 THEN <<Malformed>>
          ELSE LET inner == SubSeq(body, 1, e - 1)
                   rest == SubSeq(body, e + Len(close), Len(body))
               IN IF rest = << >> THEN <<inner>>
                  ELSE IF ~StartsWith(rest, sep) THEN <<inner, Malformed>>
                  ELSE <<inner>> \o Elements(SubSeq(rest, Len(sep) + 1, Len(rest)), open, close, sep)

Entities == {Amp, Lt, Gt, Quot, Apos}

EntityChar(e) ==
  IF e = Amp THEN AmpChar ELSE IF e = Lt THEN LtChar ELSE IF e = Gt THEN GtChar
  ELSE IF e = Quot THEN QuotChar ELSE AposChar

\* The text a browser shows for an escaped text.
RECURSIVE Unescape(_)
Unescape(s) ==
  IF s = << >> THEN << >>
  ELSE IF \E e \in Entities : StartsWith(s, e)
    THEN LET e == CHOOSE x \in Entities : StartsWith(s, x)
         IN <<EntityChar(e)>> \o Unescape(SubSeq(s, Len(e) + 1, Len(s)))
    ELSE <<Head(s)>> \o Unescape(Tail(s))

\* The header cells a browser shows for a thead text.
ShownHeaders(th) ==
  LET trs == Elements(th, TrOpen, TrClose, << >>)
  IN IF Len(trs) # 1 THEN <<Malformed>>
     ELSE LET cells == Elements(trs[1], ThOpen, ThClose, << >>)
          IN [k \in 1..Len(cells) |-> Unescape(cells[k])]

\* The body rows a browser shows for a tbody text.
ShownRows(tb) ==
  LET trs == Elements(tb, TrOpen, TrClose, Newline)
  IN [j \in 1..Len(trs) |->
        LET cells == Elements(trs[j], TdOpen, TdClose, << >>)
        IN [k \in 1..Len(cells) |-> Unescape(cells[k])]]

\* A header text is non-empty after trimming whitespace.
NonBlank(h) == \E i \in 1..Len(h) : h[i] \notin Whitespace

\* The input of the current run, as it is in the CSV file.
InRows == Content(csvFile)
InHeader == Head(InRows)
InData == Tail(InRows)
KeptPositions == { i \in 1..Len(InHeader) : NonBlank(InHeader[i]) }
KCols == Cardinality(KeptPositions)
NRows == Len(InRows) - 1

\* The k-th kept column, counted from the left.
NthKept(k) ==
  CHOOSE i \in KeptPositions : Cardinality({ j \in KeptPositions : j < i }) = k - 1

\* The kept columns, from the left.
KeptSeq == [k \in 1..KCols |-> NthKept(k)]

\* The run has ended in success: its page is at the output path.
Rendered == pc = "done" /\ exit = ExitOk

\* The table of the page at the output path.
OutThead == Content(outFile).thead
OutTbody == Content(outFile).tbody

\* main has been called in the current run.
InMain == pc \in {"mkdir", "read", "check_rows", "filter", "remap", "timestamp",
                  "render", "write", "print"}
          \/ (pc = "done" /\ exit # UsageMsg)

Specials == {LtChar, GtChar, AmpChar, QuotChar, AposChar}

Tags == {TrOpen, TrClose, ThOpen, ThClose, TdOpen, TdClose}

\* No special character of s is raw: each "<" opens a tag, each ">" closes
\* one, each "&" starts an entity and there is no quote at all.
NoRawSpecial(s) ==
  \A i \in 1..Len(s) :
    /\ s[i] = LtChar => \E t \in Tags : MatchAt(s, i, t)
    /\ s[i] = GtChar => \E t \in Tags : i >= Len(t) /\ MatchAt(s, i - Len(t) + 1, t)
    /\ s[i] = AmpChar => \E e \in Entities : MatchAt(s, i, e)
    /\ s[i] \notin {QuotChar, AposChar}

RECURSIVE SumOver(_, _)
SumOver(cells, c) ==
  IF cells = << >> THEN 0 ELSE CountChar(Head(cells), c) + SumOver(Tail(cells), c)

\* The kept cells of the input: of the header, and of the data row by row
\* with the empty text where a row has no cell at a kept column.
KeptHeaderCells == LET ks == KeptSeq IN [k \in 1..Len(ks) |-> InHeader[ks[k]]]

KeptDataRows ==
  LET ks == KeptSeq
      data == InData
  IN [j \in 1..Len(data) |->
        [k \in 1..Len(ks) |-> IF ks[k] <= Len(data[j]) THEN data[j][ks[k]] ELSE << >>]]

KeptDataCells == Concat(KeptDataRows)

\* Each special character of the cells is in the text as its entity.
EntitiesFor(text, cells) ==
  LET t == text
      cs == cells
  IN \A e \in Entities : CountSub(t, e) = SumOver(cs, EntityChar(e))

\* ---------------------------------------------------------------- the claims

\* C1: for a CSV whose header has K non-blank columns and which has N data
\* rows of any lengths, the page a successful run leaves at the output path
\* has exactly K <th> cells in its thead and exactly N <tr> rows in its
\* tbody, each with exactly K <td> cells.
C1_CountsMatch ==
  Rendered =>
    LET K == KCols
        N == NRows
        th == OutThead
        tb == OutTbody
        trs == Elements(tb, TrOpen, TrClose, Newline)
    IN /\ K >= 1
       /\ CountSub(th, ThOpen) = K
       /\ CountSub(th, ThClose) = K
       /\ CountSub(tb, TrOpen) = N
       /\ CountSub(tb, TrClose) = N
       /\ Len(trs) = N
       /\ \A j \in 1..Len(trs) :
            CountSub(trs[j], TdOpen) = K /\ CountSub(trs[j], TdClose) = K

\* C1 witness: a page is rendered for two kept columns and two data rows,
\* one row shorter and one longer than the header.
C1_Witness ==
  /\ Rendered
  /\ KCols = 2
  /\ NRows = 2
  /\ \E j \in 1..NRows : Len(InData[j]) < Len(InHeader)
  /\ \E j \in 1..NRows : Len(InData[j]) > Len(InHeader)

\* C2: in the thead and tbody of the page a run leaves no special character coming from a
\* header or a cell is raw: every "<" and ">" belongs to a tag of the
\* table, every "&" starts an entity, there is no quote, and each special
\* character of the kept cells is there as its entity.
C2_Escaped ==
  Rendered =>
    /\ NoRawSpecial(OutThead)
    /\ NoRawSpecial(OutTbody)
    /\ EntitiesFor(OutThead, KeptHeaderCells)
    /\ EntitiesFor(OutTbody, KeptDataCells)

\* C2 witness: a page is rendered whose kept header cells and kept data
\* cells together hold all five special characters.
C2_Witness ==
  /\ Rendered
  /\ \A c \in Specials : SumOver(KeptHeaderCells, c) > 0
  /\ \A c \in Specials : SumOver(KeptDataCells, c) > 0

\* C3: the headers of the page a run leaves are the header cells of the file that are
\* non-empty after trimming, in their original order and with their
\* original untrimmed text; the kept indices are strictly increasing and a
\* blank header cell is never kept.
C3_HeadersKept ==
  Rendered =>
    /\ ShownHeaders(OutThead) = SelectSeq(InHeader, NonBlank)
    /\ \A k \in 1..(Len(keep_indices) - 1) : keep_indices[k] < keep_indices[k + 1]
    /\ Range(keep_indices) = KeptPositions

\* C3 witness: a page is rendered for a header with a whitespace-only cell
\* that is dropped and a kept cell that has a leading space.
C3_Witness ==
  /\ Rendered
  /\ \E i \in 1..Len(InHeader) : InHeader[i] # << >> /\ ~NonBlank(InHeader[i])
  /\ \E k \in 1..Len(ShownHeaders(OutThead)) :
       ShownHeaders(OutThead)[k] = Str(<<" ", "a">>) \o <<233>>

\* C4: in the page a run leaves, the k-th cell of the j-th body row is the cell of the j-th
\* data row of the file at the k-th kept column when the row has one, and
\* the empty text otherwise; rows keep the file order.
C4_RowsRemapped ==
  Rendered =>
    LET shown == ShownRows(OutTbody)
        ks == KeptSeq
    IN /\ Len(shown) = NRows
       /\ \A j \in 1..Len(shown) :
            /\ Len(shown[j]) = Len(ks)
            /\ \A k \in 1..Len(ks) :
                 shown[j][k] = IF ks[k] <= Len(InData[j]) THEN InData[j][ks[k]] ELSE << >>

\* C4 witness: a page is rendered where the first header column is dropped,
\* one data row is too short for the kept column, another has a non-empty
\* cell there, and a cell beyond the header exists.
C4_Witness ==
  /\ Rendered
  /\ 1 \notin KeptPositions
  /\ NRows = 2
  /\ \E j \in 1..NRows : Len(InData[j]) < NthKept(1)
  /\ \E j \in 1..NRows :
       /\ Len(InData[j]) > Len(InHeader)
       /\ InData[j][NthKept(1)] # << >>
  /\ ShownRows(OutTbody)[1] # ShownRows(OutTbody)[2]

\* C5: a run of main on a CSV file with zero rows ends with "CSV is empty",
\* never gets past the check of the rows, and at no time of the run is the
\* output file other than it was when the run started.
C5_EmptyCsvWritesNothing ==
  (InMain /\ csvFile = FileOf(<< >>)) =>
    /\ pc \in {"mkdir", "read", "check_rows", "done"}
    /\ pc = "done" => exit = EmptyMsg
    /\ outFile = fileAtStart

\* C5 witness: a run on the empty CSV has ended with "CSV is empty" and the
\* stale page of an earlier run is still at the output path.
C5_Witness ==
  /\ pc = "done"
  /\ exit = EmptyMsg
  /\ fileAtStart = FileOf(StalePage)
  /\ outFile = FileOf(StalePage)

\* C6: a run of main on a CSV file with at least one row whose header cells
\* are all blank ends with "No non-empty header columns found in CSV",
\* never gets past the filter, and at no time of the run is the output file
\* other than it was when the run started.
C6_BlankHeaderWritesNothing ==
  (InMain /\ csvFile # NoFile /\ InRows # << >> /\ KeptPositions = {}) =>
    /\ pc \in {"mkdir", "read", "check_rows", "filter", "done"}
    /\ pc = "done" => exit = NoColumnsMsg
    /\ outFile = fileAtStart

\* C6 witness: a run on a CSV with a two-cell all-blank header and a data
\* row has ended with the message, the stale page still in place.
C6_Witness ==
  /\ pc = "done"
  /\ exit = NoColumnsMsg
  /\ Len(InHeader) = 2
  /\ NRows >= 1
  /\ outFile = FileOf(StalePage)

\* C7: with an argument count other than two the script ends at once with
\* the usage message: main is not called, nothing is read and no directory
\* or file is created; with exactly two arguments main is called with
\* them in order.
C7_UsageOrCall ==
  (pc \notin {"idle", "entry"}) =>
    IF Len(argv) # 3
      THEN /\ pc = "done"
           /\ exit = UsageMsg
           /\ csv_path = None /\ out_path = None
           /\ rows = NoRows
           /\ dirs = dirsAtStart
           /\ outFile = fileAtStart
      ELSE /\ exit # UsageMsg
           /\ csv_path = argv[2]
           /\ out_path = argv[3]
           /\ csv_path = InPath
           /\ out_path = OutPath

\* C7 witness: a run with three positional arguments has ended with the
\* usage message while the output directories are absent.
C7_Witness ==
  /\ pc = "done"
  /\ Len(argv) = 4
  /\ exit = UsageMsg
  /\ dirs = {}

\* C8: the page a successful run leaves at the output path and the page
\* the previous successful run left there for the same CSV rows have the
\* same thead and tbody, and are equal when their timestamps are equal.
C8_SameInputSamePage ==
  (pc = "print" /\ lastRun # NoRun /\ lastRun[1].rows = rows) =>
    /\ Content(outFile).thead = lastRun[1].page.thead
    /\ Content(outFile).tbody = lastRun[1].page.tbody
    /\ Content(outFile).updated = lastRun[1].page.updated => Content(outFile) = lastRun[1].page

\* C8 witness: a second successful run on a CSV with data rows has written
\* its page with the timestamp of the first.
C8_Witness ==
  /\ pc = "print"
  /\ lastRun # NoRun
  /\ Len(rows) > 1
  /\ Content(outFile).updated = lastRun[1].page.updated
  /\ Content(outFile) = lastRun[1].page

\* C9: every effect of a run on the file system (creating the parent
\* directory, writing the file) comes after the CSV is loaded, filtered and
\* rendered, so a run that ends with "CSV is empty" or "No non-empty header
\* columns found in CSV" has created no directory and written no file.
C9_NoOutputOnAbort ==
  (pc = "done" /\ exit \in {EmptyMsg, NoColumnsMsg}) =>
    /\ dirs = dirsAtStart
    /\ outFile = fileAtStart

\* C10: a run of main on a readable CSV with a non-blank header ends in
\* success; then the parent directories of the output path exist, the
\* output file holds the page this run rendered whatever it held before,
\* and the summary has the numbers of data rows and of kept columns.
C10_SuccessState ==
  (pc = "done" /\ Len(argv) = 3 /\ csvFile # NoFile /\ InRows # << >> /\ KeptPositions # {}) =>
    /\ exit = ExitOk
    /\ Range(Parents(out_path)) \subseteq dirs
    /\ outFile = FileOf(page)
    /\ page = PageOf(updated, thead, tbody)
    /\ updated = Strftime(now)
    /\ ShownHeaders(page.thead) = SelectSeq(InHeader, NonBlank)
    /\ stdout = [rows |-> NRows, cols |-> KCols]

\* C10 witness: a run that started without the directories has succeeded
\* on a CSV with a two-cell header, one kept column and two data rows.
C10_Witness ==
  /\ pc = "done"
  /\ exit = ExitOk
  /\ dirsAtStart = {}
  /\ dirs = {"site", "site/pages"}
  /\ stdout = [rows |-> 2, cols |-> 1]
  /\ Len(InHeader) = 2

====
